---- MODULE Spec2Model ----
(***************************************************************************)
(* Model of libcmaes::Parameters<TGenoPheno> (src/src/parameters.h), the   *)
(* configuration object of the CMA-ES solvers.                             *)
(*                                                                         *)
(* Encodings                                                               *)
(*  - a dVec is a sequence; component i of the C++ vector (0-based) is     *)
(*    element i+1 of the sequence;                                         *)
(*  - a double that only ever holds a caller-supplied value is an integer; *)
(*    _ftarget is <<"-inf">> or <<"fin", v>>; the tolerances are counted   *)
(*    in units of 1e-12;                                                   *)
(*  - a uint64_t is a tuple of four 16-bit limbs, most significant first,  *)
(*    so that all 64 bits are kept;                                        *)
(*  - an int and a time_t are integers within the 32-bit int range;        *)
(*  - std::unordered_map<int,double> is a function on its set of keys.     *)
(***************************************************************************)
EXTENDS Integers, Sequences, FiniteSets, TLC

VARIABLES _dim, _lambda, _max_iter, _max_fevals, _quiet, _fplot,
          _x0min, _x0max, _ftarget, _ftolerance, _xtol, _seed, _algo,
          _with_gradient, _with_edm, _fixed_p, _gp, _mt_feval, _max_hist,
          ctor, last, diag

\* the fields of the object
fields == <<_dim, _lambda, _max_iter, _max_fevals, _quiet, _fplot,
            _x0min, _x0max, _ftarget, _ftolerance, _xtol, _seed, _algo,
            _with_gradient, _with_edm, _fixed_p, _gp, _mt_feval, _max_hist>>

\* the fields, the constructor that built the object (ctor), the last call
\* with its arguments (last) and what that call logged (diag)
vars == <<_dim, _lambda, _max_iter, _max_fevals, _quiet, _fplot,
          _x0min, _x0max, _ftarget, _ftolerance, _xtol, _seed, _algo,
          _with_gradient, _with_edm, _fixed_p, _gp, _mt_feval, _max_hist,
          ctor, last, diag>>

----------------------------------------------------------------------------
\* Bounds of the model

\* largest dimension of the constructions with enumerated x0 arrays
MaxDim == 2
\* largest length of a vector or array handed to a set_x0 overload
MaxVecLen == MaxDim
\* largest dimension of the constructions that resolve lambda
MaxLambdaDim == 31

\* values of the components of x0, x0min, x0max
X0Vals == {0, 1}
\* indices and values handed to set_fixed_p / unset_fixed_p
FixedIdx == {0, 1}
FixedVals == {1, 2}
\* wall-clock readings, seconds since the epoch (time(nullptr))
ClockValues == {1700000000, 1700000001}
\* int arguments of set_seed
SeedInts == {-1, 0, 1, 7}
\* genotype/phenotype objects
GenoPhenos == {"gp_default", "gp_other"}

----------------------------------------------------------------------------
\* 64-bit unsigned integers as four 16-bit limbs

Limb == 65536
HalfLimb == 32768

U64Zero == <<0, 0, 0, 0>>

\* int or time_t -> uint64_t: two's complement, sign extended
ToUint64(v) ==
  LET hi == IF v < 0 THEN Limb - 1 ELSE 0
  IN  <<hi, hi, (v \div Limb) % Limb, v % Limb>>

\* uint64_t -> int: the low 32 bits, read as two's complement
ToInt(s) ==
  IF s[3] >= HalfLimb THEN (s[3] - Limb) * Limb + s[4]
                      ELSE s[3] * Limb + s[4]

\* uint64_t seeds handed to the constructor:
\* 0, 1, 2^31, 2^32 + 1, 2^64 - 1
SeedArgs == {U64Zero, <<0, 0, 0, 1>>, <<0, 0, HalfLimb, 0>>,
             <<0, 1, 0, 1>>, <<Limb - 1, Limb - 1, Limb - 1, Limb - 1>>}

----------------------------------------------------------------------------
\* Vectors

\* dVec::Constant(n, v)
Constant(n, v) == [i \in 1..n |-> v]

\* the sequences over S of length lo..hi
RECURSIVE SeqsOfLen(_, _)
SeqsOfLen(S, n) ==
  IF n = 0 THEN {<<>>}
  ELSE {Append(s, x) : s \in SeqsOfLen(S, n - 1), x \in S}

SeqsBetween(S, lo, hi) == UNION {SeqsOfLen(S, n) : n \in lo..hi}

----------------------------------------------------------------------------
\* Population size

\* floor(3.0*log(d)) in IEEE double arithmetic, d = 1..40
Floor3LogTable ==
  <<0, 2, 3, 4, 4, 5, 5, 6, 6, 6, 7, 7, 7, 7, 8, 8, 8, 8, 8, 8,
    9, 9, 9, 9, 9, 9, 9, 9, 10, 10, 10, 10, 10, 10, 10, 10, 10, 10, 10, 11>>

\* a plausible slip: 3*floor(log(d)) instead of floor(3*log(d))
DefaultLambda_floorfirst(d) ==
  4 + 3 * (CHOOSE k \in 0..3 :
             /\ <<1, 3, 8, 21>>[k + 1] <= d
             /\ (k = 3 \/ d < <<1, 3, 8, 21>>[k + 2]))

\* 4 + floor(3.0*log(_dim)), converted to int
DefaultLambda(d) == 4 + Floor3LogTable[d]

----------------------------------------------------------------------------
\* Algorithm registry

\* the initializer list of _algos, in order
AlgosInit ==
  << <<"cmaes", 0>>, <<"ipop", 1>>, <<"bipop", 2>>, <<"acmaes", 3>>,
     <<"aipop", 4>>, <<"abipop", 5>>, <<"sepcmaes", 6>>, <<"sepipop", 7>>,
     <<"sepbipop", 8>>, <<"sepacmaes", 9>>, <<"sepipop", 10>>,
     <<"sepbipop", 11>> >>

\* std::map built from an initializer list: elements are inserted in order,
\* and an insert of a key that is already present does nothing
RECURSIVE MapOfList(_, _)
MapOfList(l, n) ==
  IF n = 0 THEN [k \in {} |-> 0]
  ELSE LET m == MapOfList(l, n - 1)
           k == l[n][1]
       IN  IF k \in DOMAIN m THEN m
           ELSE [x \in DOMAIN m \cup {k} |-> IF x = k THEN l[n][2] ELSE m[x]]

_algos == MapOfList(AlgosInit, Len(AlgosInit))

\* names handed to set_str_algo: the twelve documented ones and two others
DocumentedNames ==
  <<"cmaes", "ipop", "bipop", "acmaes", "aipop", "abipop", "sepcmaes",
    "sepipop", "sepbipop", "sepacmaes", "sepaipop", "sepabipop">>

AlgoNames == {DocumentedNames[i] : i \in 1..12} \cup {"nonexistent", ""}

\* codes handed to set_algo
AlgoCodes == 0..11

----------------------------------------------------------------------------
\* Construction

NegInfinity == <<"-inf">>

\* Parameters(): _dim, _lambda, _max_iter are 0, the rest are the default
\* member initializers
Init ==
  /\ _dim = 0
  /\ _lambda = 0
  /\ _max_iter = 0
  /\ _max_fevals = -1
  /\ _quiet = FALSE
  /\ _fplot = ""
  /\ _x0min = <<>>
  /\ _x0max = <<>>
  /\ _ftarget = NegInfinity
  /\ _ftolerance = 1
  /\ _xtol = 1
  /\ _seed = U64Zero
  /\ _algo = 0
  /\ _with_gradient = FALSE
  /\ _with_edm = FALSE
  /\ _fixed_p = [k \in {} |-> 0]
  /\ _gp = "gp_default"
  /\ _mt_feval = FALSE
  /\ _max_hist = 100
  /\ ctor = [kind |-> "empty", dim |-> 0]
  /\ last = [op |-> "Parameters()"]
  /\ diag = <<>>

\* Parameters(dim, x0, lambda, seed, gp), building a new object in place of
\* the current one; clock is what time(nullptr) returns
Parameters(dim, x0, lambda, seed, gp, clock) ==
  /\ _dim' = dim
  /\ _lambda' = IF lambda = -1 THEN DefaultLambda(dim) ELSE lambda
  /\ _seed' = IF seed = U64Zero THEN ToUint64(clock) ELSE seed
  /\ _gp' = gp
  /\ _x0min' = [i \in 1..dim |-> x0[i]]
  /\ _x0max' = [i \in 1..dim |-> x0[i]]
  /\ _max_iter' = -1
  /\ _max_fevals' = -1
  /\ _quiet' = FALSE
  /\ _fplot' = ""
  /\ _ftarget' = NegInfinity
  /\ _ftolerance' = 1
  /\ _xtol' = 1
  /\ _algo' = 0
  /\ _with_gradient' = FALSE
  /\ _with_edm' = FALSE
  /\ _fixed_p' = [k \in {} |-> 0]
  /\ _mt_feval' = FALSE
  /\ _max_hist' = 100
  /\ ctor' = [kind |-> "main", dim |-> dim]
  /\ last' = [op |-> "Parameters", dim |-> dim, x0 |-> x0, lambda |-> lambda,
              seed |-> seed, gp |-> gp, clock |-> clock]
  /\ diag' = <<>>

----------------------------------------------------------------------------
\* Seed

\* a plausible slip: the test is on the stored seed in the source; here it is
\* on the argument
set_seed_testarg(seed, clock) ==
  /\ _seed' = IF seed = 0 THEN ToUint64(clock) ELSE ToUint64(seed)
  /\ last' = [op |-> "set_seed", seed |-> seed, clock |-> clock, old |-> _seed]
  /\ diag' = <<>>
  /\ UNCHANGED <<_dim, _lambda, _max_iter, _max_fevals, _quiet, _fplot,
                 _x0min, _x0max, _ftarget, _ftolerance, _xtol, _algo,
                 _with_gradient, _with_edm, _fixed_p, _gp, _mt_feval,
                 _max_hist, ctor>>

\* set_seed(seed); clock is what time(nullptr) returns
set_seed(seed, clock) ==
  /\ _seed' = IF _seed = U64Zero THEN ToUint64(clock) ELSE ToUint64(seed)
  /\ last' = [op |-> "set_seed", seed |-> seed, clock |-> clock, old |-> _seed]
  /\ diag' = <<>>
  /\ UNCHANGED <<_dim, _lambda, _max_iter, _max_fevals, _quiet, _fplot,
                 _x0min, _x0max, _ftarget, _ftolerance, _xtol, _algo,
                 _with_gradient, _with_edm, _fixed_p, _gp, _mt_feval,
                 _max_hist, ctor>>

\* get_seed(): the uint64_t seed returned as int
get_seed == ToInt(_seed)

\* the constructions and calls of the seed specification
ConstructSeed ==
  \E dim \in 1..MaxDim, lambda \in {-1, 6}, seed \in SeedArgs,
     clock \in ClockValues :
       Parameters(dim, Constant(dim, 0), lambda, seed, "gp_default", clock)

CallSetSeed == \E seed \in SeedInts, clock \in ClockValues : set_seed(seed, clock)

NextSeed == ConstructSeed \/ CallSetSeed

SpecSeed == Init /\ [][NextSeed]_vars

----------------------------------------------------------------------------
\* Initial point and bounds

\* set_x0(const double &x0)
set_x0_scalar(x0) ==
  /\ _x0min' = Constant(_dim, x0)
  /\ _x0max' = Constant(_dim, x0)
  /\ last' = [op |-> "set_x0_scalar", x0 |-> x0, after |-> last.op]
  /\ diag' = <<>>
  /\ UNCHANGED <<_dim, _lambda, _max_iter, _max_fevals, _quiet, _fplot,
                 _ftarget, _ftolerance, _xtol, _seed, _algo, _with_gradient,
                 _with_edm, _fixed_p, _gp, _mt_feval, _max_hist, ctor>>

\* set_x0(const double *x0): the first _dim elements of the array
set_x0_array(x0) ==
  /\ _x0min' = [i \in 1.._dim |-> x0[i]]
  /\ _x0max' = [i \in 1.._dim |-> x0[i]]
  /\ last' = [op |-> "set_x0_array", x0 |-> x0, after |-> last.op]
  /\ diag' = <<>>
  /\ UNCHANGED <<_dim, _lambda, _max_iter, _max_fevals, _quiet, _fplot,
                 _ftarget, _ftolerance, _xtol, _seed, _algo, _with_gradient,
                 _with_edm, _fixed_p, _gp, _mt_feval, _max_hist, ctor>>

\* set_x0(const double &x0min, const double &x0max)
set_x0_scalars(x0min, x0max) ==
  /\ _x0min' = Constant(_dim, x0min)
  /\ _x0max' = Constant(_dim, x0max)
  /\ last' = [op |-> "set_x0_scalars", x0min |-> x0min, x0max |-> x0max,
              after |-> last.op]
  /\ diag' = <<>>
  /\ UNCHANGED <<_dim, _lambda, _max_iter, _max_fevals, _quiet, _fplot,
                 _ftarget, _ftolerance, _xtol, _seed, _algo, _with_gradient,
                 _with_edm, _fixed_p, _gp, _mt_feval, _max_hist, ctor>>

\* set_x0(const dVec &x0): the vector is stored as given, whatever its size
set_x0_dVec(x0) ==
  /\ _x0min' = x0
  /\ _x0max' = x0
  /\ last' = [op |-> "set_x0_dVec", x0 |-> x0, after |-> last.op]
  /\ diag' = <<>>
  /\ UNCHANGED <<_dim, _lambda, _max_iter, _max_fevals, _quiet, _fplot,
                 _ftarget, _ftolerance, _xtol, _seed, _algo, _with_gradient,
                 _with_edm, _fixed_p, _gp, _mt_feval, _max_hist, ctor>>

\* a plausible slip: the loop writes x0min[i] into both vectors
set_x0_arrays_samesource(x0min, x0max) ==
  /\ _x0min' = [i \in 1.._dim |-> x0min[i]]
  /\ _x0max' = [i \in 1.._dim |-> x0min[i]]
  /\ last' = [op |-> "set_x0_arrays", x0min |-> x0min, x0max |-> x0max,
              after |-> last.op]
  /\ diag' = <<>>
  /\ UNCHANGED <<_dim, _lambda, _max_iter, _max_fevals, _quiet, _fplot,
                 _ftarget, _ftolerance, _xtol, _seed, _algo, _with_gradient,
                 _with_edm, _fixed_p, _gp, _mt_feval, _max_hist, ctor>>

\* set_x0(const double *x0min, const double *x0max)
set_x0_arrays(x0min, x0max) ==
  /\ _x0min' = [i \in 1.._dim |-> x0min[i]]
  /\ _x0max' = [i \in 1.._dim |-> x0max[i]]
  /\ last' = [op |-> "set_x0_arrays", x0min |-> x0min, x0max |-> x0max,
              after |-> last.op]
  /\ diag' = <<>>
  /\ UNCHANGED <<_dim, _lambda, _max_iter, _max_fevals, _quiet, _fplot,
                 _ftarget, _ftolerance, _xtol, _seed, _algo, _with_gradient,
                 _with_edm, _fixed_p, _gp, _mt_feval, _max_hist, ctor>>

\* set_x0(const dVec &x0min, const dVec &x0max): stored as given
set_x0_dVecs(x0min, x0max) ==
  /\ _x0min' = x0min
  /\ _x0max' = x0max
  /\ last' = [op |-> "set_x0_dVecs", x0min |-> x0min, x0max |-> x0max,
              after |-> last.op]
  /\ diag' = <<>>
  /\ UNCHANGED <<_dim, _lambda, _max_iter, _max_fevals, _quiet, _fplot,
                 _ftarget, _ftolerance, _xtol, _seed, _algo, _with_gradient,
                 _with_edm, _fixed_p, _gp, _mt_feval, _max_hist, ctor>>

get_x0min == _x0min

get_x0max == _x0max

\* arrays behind a const double*: at least _dim elements are readable
Arrays(dim) == SeqsBetween(X0Vals, dim, MaxVecLen)

\* dVec arguments: any size
Vectors == SeqsBetween(X0Vals, 0, MaxVecLen)

ConstructX0 ==
  \E dim \in 1..MaxDim, seed \in {U64Zero, <<0, 0, 0, 1>>} :
    \E x0 \in Arrays(dim) :
      Parameters(dim, x0, -1, seed, "gp_default", 1700000000)

CallSetX0Scalar == \E x0 \in X0Vals : set_x0_scalar(x0)

CallSetX0Array == \E x0 \in Arrays(_dim) : set_x0_array(x0)

CallSetX0Scalars == \E x0min \in X0Vals, x0max \in X0Vals : set_x0_scalars(x0min, x0max)

CallSetX0dVec == \E x0 \in Vectors : set_x0_dVec(x0)

CallSetX0Arrays == \E x0min \in Arrays(_dim), x0max \in Arrays(_dim) : set_x0_arrays(x0min, x0max)

CallSetX0dVecs == \E x0min \in Vectors, x0max \in Vectors : set_x0_dVecs(x0min, x0max)

NextX0 ==
  \/ ConstructX0
  \/ CallSetX0Scalar
  \/ CallSetX0Array
  \/ CallSetX0Scalars
  \/ CallSetX0dVec
  \/ CallSetX0Arrays
  \/ CallSetX0dVecs

SpecX0 == Init /\ [][NextX0]_vars

----------------------------------------------------------------------------
\* Fixed parameters

\* set_fixed_p(index, value): unordered_map::insert, which leaves the map as
\* it is when the key is already there
set_fixed_p(index, value) ==
  /\ _fixed_p' = IF index \in DOMAIN _fixed_p THEN _fixed_p
                 ELSE [k \in DOMAIN _fixed_p \cup {index} |->
                         IF k = index THEN value ELSE _fixed_p[k]]
  /\ last' = [op |-> "set_fixed_p", index |-> index, value |-> value,
              present |-> index \in DOMAIN _fixed_p]
  /\ diag' = <<>>
  /\ UNCHANGED <<_dim, _lambda, _max_iter, _max_fevals, _quiet, _fplot,
                 _x0min, _x0max, _ftarget, _ftolerance, _xtol, _seed, _algo,
                 _with_gradient, _with_edm, _gp, _mt_feval, _max_hist, ctor>>

\* a plausible slip: clear() instead of erase(mit)
unset_fixed_p_clear(index) ==
  /\ _fixed_p' = IF index \in DOMAIN _fixed_p THEN [k \in {} |-> 0]
                 ELSE _fixed_p
  /\ last' = [op |-> "unset_fixed_p", index |-> index,
              present |-> index \in DOMAIN _fixed_p,
              after |-> IF last.op \in {"set_fixed_p", "unset_fixed_p"}
                          THEN <<last.op, last.index>> ELSE <<last.op>>]
  /\ diag' = <<>>
  /\ UNCHANGED <<_dim, _lambda, _max_iter, _max_fevals, _quiet, _fplot,
                 _x0min, _x0max, _ftarget, _ftolerance, _xtol, _seed, _algo,
                 _with_gradient, _with_edm, _gp, _mt_feval, _max_hist, ctor>>

\* unset_fixed_p(index): find, then erase when found
unset_fixed_p(index) ==
  /\ _fixed_p' = IF index \in DOMAIN _fixed_p
                   THEN [k \in DOMAIN _fixed_p \ {index} |-> _fixed_p[k]]
                   ELSE _fixed_p
  /\ last' = [op |-> "unset_fixed_p", index |-> index,
              present |-> index \in DOMAIN _fixed_p,
              after |-> IF last.op \in {"set_fixed_p", "unset_fixed_p"}
                          THEN <<last.op, last.index>> ELSE <<last.op>>]
  /\ diag' = <<>>
  /\ UNCHANGED <<_dim, _lambda, _max_iter, _max_fevals, _quiet, _fplot,
                 _x0min, _x0max, _ftarget, _ftolerance, _xtol, _seed, _algo,
                 _with_gradient, _with_edm, _gp, _mt_feval, _max_hist, ctor>>

ConstructFixed ==
  \E dim \in 1..MaxDim, lambda \in {-1, 6}, seed \in {U64Zero, <<0, 0, 0, 1>>},
     gp \in GenoPhenos :
       Parameters(dim, Constant(dim, 0), lambda, seed, gp, 1700000000)

CallSetFixedP == \E index \in FixedIdx, value \in FixedVals : set_fixed_p(index, value)

CallUnsetFixedP == \E index \in FixedIdx : unset_fixed_p(index)

NextFixed == ConstructFixed \/ CallSetFixedP \/ CallUnsetFixedP

SpecFixed == Init /\ [][NextFixed]_vars

----------------------------------------------------------------------------
\* Algorithm selection

\* set_algo(algo)
set_algo(algo) ==
  /\ _algo' = algo
  /\ last' = [op |-> "set_algo", algo |-> algo]
  /\ diag' = <<>>
  /\ UNCHANGED <<_dim, _lambda, _max_iter, _max_fevals, _quiet, _fplot,
                 _x0min, _x0max, _ftarget, _ftolerance, _xtol, _seed,
                 _with_gradient, _with_edm, _fixed_p, _gp, _mt_feval,
                 _max_hist, ctor>>

\* a plausible slip: _algo = _algos[algo], which yields 0 for a missing key
set_str_algo_subscript(algo) ==
  /\ _algo' = IF algo \in DOMAIN _algos THEN _algos[algo] ELSE 0
  /\ diag' = <<>>
  /\ last' = [op |-> "set_str_algo", algo |-> algo, old |-> _algo]
  /\ UNCHANGED <<_dim, _lambda, _max_iter, _max_fevals, _quiet, _fplot,
                 _x0min, _x0max, _ftarget, _ftolerance, _xtol, _seed,
                 _with_gradient, _with_edm, _fixed_p, _gp, _mt_feval,
                 _max_hist, ctor>>

\* set_str_algo(algo): a hit sets the code, a miss logs
\* "unknown algorithm " << algo at level ERROR
set_str_algo(algo) ==
  /\ IF algo \in DOMAIN _algos
       THEN /\ _algo' = _algos[algo]
            /\ diag' = <<>>
       ELSE /\ _algo' = _algo
            /\ diag' = << <<"ERROR", "unknown algorithm ", algo>> >>
  /\ last' = [op |-> "set_str_algo", algo |-> algo, old |-> _algo]
  /\ UNCHANGED <<_dim, _lambda, _max_iter, _max_fevals, _quiet, _fplot,
                 _x0min, _x0max, _ftarget, _ftolerance, _xtol, _seed,
                 _with_gradient, _with_edm, _fixed_p, _gp, _mt_feval,
                 _max_hist, ctor>>

get_algo == _algo

ConstructAlgo ==
  \E dim \in 1..MaxDim, lambda \in {-1, 6}, seed \in {U64Zero, <<0, 0, 0, 1>>},
     gp \in GenoPhenos :
       Parameters(dim, Constant(dim, 0), lambda, seed, gp, 1700000000)

CallSetAlgo == \E algo \in AlgoCodes : set_algo(algo)

CallSetStrAlgo == \E algo \in AlgoNames : set_str_algo(algo)

NextAlgo == ConstructAlgo \/ CallSetAlgo \/ CallSetStrAlgo

SpecAlgo == Init /\ [][NextAlgo]_vars

----------------------------------------------------------------------------
\* Population size

lambda == _lambda

dim == _dim

ConstructLambda ==
  \E d \in 1..MaxLambdaDim, l \in {-1, 6}, seed \in {U64Zero, <<0, 0, 0, 1>>},
     clock \in ClockValues :
       Parameters(d, Constant(d, 0), l, seed, "gp_default", clock)

NextLambda == ConstructLambda

SpecLambda == Init /\ [][NextLambda]_vars

----------------------------------------------------------------------------
\* Properties

\* C2 as claimed: a seed of 0 given to the constructor or to set_seed is
\* replaced by the wall-clock value, and after the main constructor and any
\* number of set_seed calls the stored seed is not 0
C2_ZeroNeverStored ==
  /\ (last.op = "Parameters" /\ last.seed = U64Zero)
        => _seed = ToUint64(last.clock)
  /\ (last.op = "set_seed" /\ last.seed = 0)
        => _seed = ToUint64(last.clock)
  /\ ctor.kind = "main" => _seed # U64Zero

C4_SeedVerbatim ==
  /\ (last.op = "Parameters" /\ last.seed # U64Zero)
        => /\ get_seed >= 0
           /\ <<0, 0, get_seed \div Limb, get_seed % Limb>> = last.seed
  /\ (last.op = "set_seed" /\ last.old # U64Zero /\ last.seed # 0)
        => /\ last.seed >= 0
           /\ _seed = <<0, 0, last.seed \div Limb, last.seed % Limb>>

\* C1 as claimed: right after set_fixed_p(i, v) the mapping holds i -> v,
\* whether or not i was frozen before the call
C1_FreezeInsertsOrOverwrites ==
  last.op = "set_fixed_p" =>
    /\ last.index \in DOMAIN _fixed_p
    /\ _fixed_p[last.index] = last.value

\* floor(e^k), k = 0..12
ExpFloor ==
  <<1, 2, 7, 20, 54, 148, 403, 1096, 2980, 8103, 22026, 59874, 162754>>

\* k = floor(3*ln(d)), stated as e^k <= d^3 < e^(k+1); e^k is an integer only
\* for k = 0
IsFloor3Ln(k, d) ==
  /\ k \in 0..11
  /\ k = 0 \/ ExpFloor[k + 1] < d * d * d
  /\ d * d * d <= ExpFloor[k + 2]

\* C7 as claimed: an unspecified lambda resolves to floor(4 + 3*ln(dim)),
\* which is 8 for dim 5, 10 for dim 10 and 13 for dim 30
C7_DefaultLambdaAsClaimed ==
  (last.op = "Parameters" /\ last.lambda = -1) =>
    /\ IsFloor3Ln(_lambda - 4, last.dim)
    /\ last.dim = 5 => _lambda = 8
    /\ last.dim = 10 => _lambda = 10
    /\ last.dim = 30 => _lambda = 13

\* C7, amended: an unspecified lambda resolves to floor(4 + 3*ln(dim)),
\* which is 8 for dim 5, 10 for dim 10 and 14 for dim 30
C7_DefaultLambda ==
  (last.op = "Parameters" /\ last.lambda = -1) =>
    /\ IsFloor3Ln(_lambda - 4, last.dim)
    /\ last.dim = 5 => _lambda = 8
    /\ last.dim = 10 => _lambda = 10
    /\ last.dim = 30 => _lambda = 14

\* a construction with dim 30 and lambda unspecified
C7_Witness ==
  /\ last.op = "Parameters"
  /\ last.lambda = -1
  /\ last.dim = 30
  /\ _dim = 30
  /\ _lambda = 14

\* vec has n components, all equal to v
IsBroadcast(vec, n, v) ==
  /\ Len(vec) = n
  /\ \A i \in 1..n : vec[i] = v

\* vec is the first n elements of arr
IsPrefix(vec, n, arr) ==
  /\ Len(vec) = n
  /\ \A i \in 1..n : vec[i] = arr[i]

\* C8: whatever was called before, get_x0min and get_x0max return what the
\* last set_x0 call alone determines: min = max = x0 for the single-value
\* forms, the given pair for the pair forms
C8_LastCallWins ==
  /\ last.op = "set_x0_scalar" =>
       /\ IsBroadcast(get_x0min, _dim, last.x0)
       /\ IsBroadcast(get_x0max, _dim, last.x0)
  /\ last.op = "set_x0_array" =>
       /\ IsPrefix(get_x0min, _dim, last.x0)
       /\ IsPrefix(get_x0max, _dim, last.x0)
  /\ last.op = "set_x0_scalars" =>
       /\ IsBroadcast(get_x0min, _dim, last.x0min)
       /\ IsBroadcast(get_x0max, _dim, last.x0max)
  /\ last.op = "set_x0_dVec" =>
       /\ get_x0min = last.x0
       /\ get_x0max = last.x0
  /\ last.op = "set_x0_arrays" =>
       /\ IsPrefix(get_x0min, _dim, last.x0min)
       /\ IsPrefix(get_x0max, _dim, last.x0max)
  /\ last.op = "set_x0_dVecs" =>
       /\ get_x0min = last.x0min
       /\ get_x0max = last.x0max

\* a pair of arrays was set right after a pair of vectors of another size,
\* and the bounds read back are the two arrays, which differ
C8_Witness ==
  /\ last.op = "set_x0_arrays"
  /\ last.after = "set_x0_dVecs"
  /\ _dim = 2
  /\ get_x0min = <<0, 1>>
  /\ get_x0max = <<1, 0>>

\* C9 as claimed: after the main constructor and any set_x0 calls, x0min and
\* x0max have exactly dim components and dim is the constructor's
C9_BoundsHaveLengthDim ==
  ctor.kind = "main" =>
    /\ Len(_x0min) = _dim
    /\ Len(_x0max) = _dim
    /\ _dim = ctor.dim

\* C5 as claimed: the registry has 12 entries, and each of the 12 documented
\* names sets the code to its position 0..11, so that every code is
\* reachable by name
C5_TwelveSelectableByName ==
  last.op = "set_str_algo" =>
    /\ Cardinality(DOMAIN _algos) = 12
    /\ \A c \in 0..11 : \E n \in DOMAIN _algos : _algos[n] = c
    /\ \A i \in 1..12 : last.algo = DocumentedNames[i] => get_algo = i - 1

\* C6: set_str_algo with a name that is not registered changes no field and
\* logs one diagnostic that carries the name; with a registered name it logs
\* nothing and sets the code ("bipop" gives 2)
C6_UnknownNameRecoverable ==
  [][last'.op = "set_str_algo" =>
       /\ last'.algo \notin DOMAIN _algos =>
            /\ UNCHANGED fields
            /\ Len(diag') = 1
            /\ diag'[1][3] = last'.algo
       /\ last'.algo \in DOMAIN _algos =>
            /\ diag' = <<>>
            /\ _algo' = _algos[last'.algo]
       /\ last'.algo = "bipop" => _algo' = 2
       /\ last'.algo = "nonexistent" => (_algo' = _algo /\ diag' # <<>>)]_vars

\* an unregistered name was given while the code was not 0: the code is kept
\* and the diagnostic names it
C6_Witness ==
  /\ last.op = "set_str_algo"
  /\ last.algo = "nonexistent"
  /\ last.old = 5
  /\ _algo = 5
  /\ diag = << <<"ERROR", "unknown algorithm ", "nonexistent">> >>

\* C10: unset_fixed_p(i) leaves a mapping without i whose other entries are
\* as before, and nothing else changes; when i was not in the mapping no
\* field changes at all, so that a second unset_fixed_p(i) changes nothing
C10_UnfreezeRemovesOne ==
  [][last'.op = "unset_fixed_p" =>
       /\ last'.index \notin DOMAIN _fixed_p'
       /\ DOMAIN _fixed_p' = DOMAIN _fixed_p \ {last'.index}
       /\ \A k \in DOMAIN _fixed_p' : _fixed_p'[k] = _fixed_p[k]
       /\ last'.index \notin DOMAIN _fixed_p => UNCHANGED fields
       /\ (last.op = "unset_fixed_p" /\ last.index = last'.index)
            => UNCHANGED fields
       /\ UNCHANGED <<_dim, _lambda, _max_iter, _max_fevals, _quiet, _fplot,
                      _x0min, _x0max, _ftarget, _ftolerance, _xtol, _seed,
                      _algo, _with_gradient, _with_edm, _gp, _mt_feval,
                      _max_hist>>]_vars

\* unset_fixed_p(i) came right after set_fixed_p(i, v): i is gone and the
\* other entry is still there
C10_Witness ==
  /\ last.op = "unset_fixed_p"
  /\ last.after = <<"set_fixed_p", last.index>>
  /\ last.present
  /\ last.index \notin DOMAIN _fixed_p
  /\ DOMAIN _fixed_p # {}

====
